---- MODULE Spec2Model ----
(***************************************************************************)
(* A model of server/models/Book.js (book/8-end): the two workflows of     *)
(* BookClass with ordering constraints, syncContent and buy.               *)
(*                                                                         *)
(* Every `await` of the source is a point where the calling coroutine is   *)
(* suspended and other calls may run; one action of the model is the code  *)
(* that runs between two such points (node is single-threaded, so that     *)
(* code is atomic).  External collaborators (mongo collections, stripe,    *)
(* github, the mailer, mailchimp) are modelled by the state they hold and  *)
(* by the outcome (resolved / rejected) of each call.                      *)
(***************************************************************************)
EXTENDS Naturals, Sequences, FiniteSets, TLC

\* ------------------------------------------------------------------ bounds
\* buy: how many calls are made (each may overlap every other).
MaxAttempts == 2
\* syncContent: how many calls may be in progress at once.
MaxRuns == 2
\* github: how many commits the repository gets.
MaxCommits == 2

\* ------------------------------------------------------- javascript values
\* The values a document field can hold, tagged with their typeof.
Undefined == [t |-> "undefined"]
Bool(b) == [t |-> "boolean", v |-> b]
Num(n) == [t |-> "number", v |-> n]

\* ToBoolean, as applied by `!!x`, `x && y` and `x || y`.
Truthy(x) ==
  IF x.t = "undefined" THEN FALSE
  ELSE IF x.t = "boolean" THEN x.v
  ELSE x.v # 0

\* ---------------------------------------------------------------- catalog
BookId == "b1"
MissingId == "b0"
Ids == {BookId, MissingId}
\* The users who call buy, and one who may have bought the book before.
Users == {"u1"}
OtherUser == "u0"
NoUser == "nouser"

\* The paths of mongoSchema.  A hydrated mongoose document has an accessor
\* for each path of its schema and for nothing else: a field the collection
\* holds but the schema does not declare reads as undefined.
SchemaPaths == {"name", "slug", "githubRepo", "githubLastCommitSha", "createdAt", "price"}

\* The documents the books collection may hold for BookId, as stored: a plain
\* book, and a book with a preorder price that is or is not in preorder.
StoredBooks ==
  {[price |-> Num(20), isInPreorder |-> Undefined, preorderPrice |-> Undefined],
   [price |-> Num(20), isInPreorder |-> Bool(TRUE), preorderPrice |-> Num(12)],
   [price |-> Num(20), isInPreorder |-> Bool(FALSE), preorderPrice |-> Num(12)]}

\* book.<path> on a hydrated document.
Get(book, path) ==
  IF path \in SchemaPaths /\ path \in DOMAIN book THEN book[path] ELSE Undefined

Attempts == 1 .. MaxAttempts
Runs == 1 .. MaxRuns

VARIABLES
  books,            \* books collection: the stored document of BookId
  purchases,        \* purchases collection: the set of its documents
  purchasedBookIds, \* users collection: user -> set of owned book ids
  charges,          \* stripe: the charges captured
  logs,             \* logger.error: the messages logged by buy
  bpc,              \* buy: attempt -> where the call is suspended
  bargs,            \* buy: attempt -> [id, user]
  blocal,           \* buy: attempt -> [isPreorder, price, chargeObj]
  bout,             \* buy: attempt -> [outcome, result]
  bcalls,           \* buy: attempt -> number of calls made to each collaborator
  bside,            \* buy: attempt -> state of each promise buy does not await
  bhist             \* history: attempt -> whether the pair had a record when buy was called

buyVars ==
  <<books, purchases, purchasedBookIds, charges, logs, bpc, bargs, blocal, bout, bcalls, bside,
    bhist>>

VARIABLES
  tree,                \* github: the top-level entries of the repository
  head,                \* github: number of commits; commit n has sha n
  githubLastCommitSha, \* books collection: the stored marker of BookId
  chapters,            \* chapters collection: the paths that have a chapter
  spc,                 \* syncContent: run -> where the call is suspended
  sargs,               \* syncContent: run -> id
  slocal,              \* syncContent: run -> [book (the marker as loaded), lastCommit, lastCommitSha]
  sfile,               \* syncContent: run -> entry -> stage of its map callback
  sout,                \* syncContent: run -> [outcome, wrote]
  scalls,              \* syncContent: run -> number of calls made to each collaborator
  hist                 \* history: how the calls on BookId followed each other

syncVars == <<tree, head, githubLastCommitSha, chapters, spc, sargs, slocal, sfile, sout, scalls, hist>>

vars == <<buyVars, syncVars>>

NoRecord == [none |-> TRUE]
NoCharge == [none |-> TRUE]
\* What the attempt is left with when stripeCharge rejects.
ChargeError == [error |-> TRUE]

\* ----------------------------------------------------------- buy: helpers
\* this.findById(id, ...): the document, or null.
FindById(id) == IF id = BookId THEN <<books>> ELSE <<>>

\* line 163
IsPreorder(book) ==
  Truthy(Get(book, "isInPreorder")) /\ Truthy(Get(book, "preorderPrice"))

\* line 164
Price(book) ==
  IF IsPreorder(book) /\ Truthy(Get(book, "preorderPrice"))
  THEN Get(book, "preorderPrice").v
  ELSE Get(book, "price").v

\* lines 176 and 210
Amount(price) == price * 100

\* Purchase.find({ userId, bookId }).count()
CountPurchases(userId, bookId) ==
  Cardinality({p \in purchases : p.userId = userId /\ p.bookId = bookId})

\* PurchaseDoc with the price written as it is, not in minor units.
PurchaseDocPrice(a) ==
  [userId |-> bargs[a].user,
   bookId |-> bargs[a].id,
   amount |-> blocal[a].price,
   stripeCharge |-> blocal[a].chargeObj,
   isPreorder |-> blocal[a].isPreorder]

\* The document passed to Purchase.create (createdAt left out).
PurchaseDoc(a) ==
  [userId |-> bargs[a].user,
   bookId |-> bargs[a].id,
   amount |-> Amount(blocal[a].price),
   stripeCharge |-> blocal[a].chargeObj,
   isPreorder |-> blocal[a].isPreorder]

\* What stripeCharge resolves with: the charge, with an id of its own.
ChargeObj(a) == [id |-> a, amount |-> Amount(blocal[a].price)]

\* The record OtherUser holds when they bought the book before.
OtherPurchase ==
  [userId |-> OtherUser,
   bookId |-> BookId,
   amount |-> Amount(20),
   stripeCharge |-> [id |-> 0, amount |-> Amount(20)],
   isPreorder |-> FALSE]

Throw(a, error) ==
  /\ bpc' = [bpc EXCEPT ![a] = "done"]
  /\ bout' = [bout EXCEPT ![a] = [outcome |-> error, result |-> NoRecord]]

Called(a, what) == bcalls' = [bcalls EXCEPT ![a][what] = @ + 1]

NoCalls ==
  [findById |-> 0, count |-> 0, stripeCharge |-> 0, findByIdAndUpdate |-> 0,
   getEmailTemplate |-> 0, sendEmail |-> 0, subscribe |-> 0, create |-> 0]

NoSide == [findByIdAndUpdate |-> "none", sendEmail |-> "none", subscribe |-> "none"]

\* ----------------------------------------------------------- buy: actions
\* The call itself: the code up to the first await (line 158).
BuyCall(a, id, user) ==
  /\ bpc[a] = "idle"
  /\ \A b \in Attempts : b < a => bpc[b] # "idle"
  /\ bpc' = [bpc EXCEPT ![a] = "findById"]
  /\ bargs' = [bargs EXCEPT ![a] = [id |-> id, user |-> user]]
  /\ Called(a, "findById")
  /\ bhist' = [bhist EXCEPT ![a] = CountPurchases(user, id) > 0]
  /\ UNCHANGED <<books, purchases, purchasedBookIds, charges, logs, blocal, bout, bside>>
  /\ UNCHANGED syncVars

\* BuyFindById with the two checks in the other order (user before book).
BuyFindByIdUserFirst(a) ==
  /\ bpc[a] = "findById"
  /\ LET found == FindById(bargs[a].id) IN
     IF bargs[a].user = NoUser
     THEN /\ Throw(a, "User required")
          /\ UNCHANGED <<blocal, bcalls>>
     ELSE IF found = <<>>
     THEN /\ Throw(a, "Book not found")
          /\ UNCHANGED <<blocal, bcalls>>
     ELSE /\ blocal' = [blocal EXCEPT ![a].isPreorder = IsPreorder(found[1]),
                                      ![a].price = Price(found[1])]
          /\ bpc' = [bpc EXCEPT ![a] = "count"]
          /\ Called(a, "count")
          /\ UNCHANGED bout
  /\ UNCHANGED <<books, purchases, purchasedBookIds, charges, logs, bargs, bside, bhist>>
  /\ UNCHANGED syncVars

\* findById resolves: lines 158-170, up to the await of the ledger count.
BuyFindById(a) ==
  /\ bpc[a] = "findById"
  /\ LET found == FindById(bargs[a].id) IN
     IF found = <<>>
     THEN /\ Throw(a, "Book not found")
          /\ UNCHANGED <<blocal, bcalls>>
     ELSE LET book == found[1] IN
          /\ blocal' = [blocal EXCEPT ![a].isPreorder = IsPreorder(book),
                                      ![a].price = Price(book)]
          /\ IF bargs[a].user = NoUser
             THEN /\ Throw(a, "User required")
                  /\ UNCHANGED bcalls
             ELSE /\ bpc' = [bpc EXCEPT ![a] = "count"]
                  /\ Called(a, "count")
                  /\ UNCHANGED bout
  /\ UNCHANGED <<books, purchases, purchasedBookIds, charges, logs, bargs, bside, bhist>>
  /\ UNCHANGED syncVars

\* BuyCount with the gateway called before the ledger's answer is looked at.
BuyCountChargesFirst(a) ==
  /\ bpc[a] = "count"
  /\ Called(a, "stripeCharge")
  /\ IF CountPurchases(bargs[a].user, bargs[a].id) > 0
     THEN Throw(a, "Already bought this book")
     ELSE /\ bpc' = [bpc EXCEPT ![a] = "stripeCharge"]
          /\ UNCHANGED bout
  /\ UNCHANGED <<books, purchases, purchasedBookIds, charges, logs, bargs, blocal, bside, bhist>>
  /\ UNCHANGED syncVars

\* BuyCount asking the user's owned products instead of the ledger.
BuyCountOwnedProducts(a) ==
  /\ bpc[a] = "count"
  /\ IF bargs[a].id \in purchasedBookIds[bargs[a].user]
     THEN /\ Throw(a, "Already bought this book")
          /\ UNCHANGED bcalls
     ELSE /\ bpc' = [bpc EXCEPT ![a] = "stripeCharge"]
          /\ Called(a, "stripeCharge")
          /\ UNCHANGED bout
  /\ UNCHANGED <<books, purchases, purchasedBookIds, charges, logs, bargs, blocal, bside, bhist>>
  /\ UNCHANGED syncVars

\* the count resolves: lines 170-175, up to the await of the charge.
BuyCount(a) ==
  /\ bpc[a] = "count"
  /\ IF CountPurchases(bargs[a].user, bargs[a].id) > 0
     THEN /\ Throw(a, "Already bought this book")
          /\ UNCHANGED bcalls
     ELSE /\ bpc' = [bpc EXCEPT ![a] = "stripeCharge"]
          /\ Called(a, "stripeCharge")
          /\ UNCHANGED bout
  /\ UNCHANGED <<books, purchases, purchasedBookIds, charges, logs, bargs, blocal, bside, bhist>>
  /\ UNCHANGED syncVars

\* BuyStripeCharge with the gateway's rejection caught instead of thrown.
BuyStripeChargeCaught(a, captured) ==
  /\ bpc[a] = "stripeCharge"
  /\ charges' = IF captured
                THEN charges \cup {[attempt |-> a, userId |-> bargs[a].user,
                                    bookId |-> bargs[a].id, charge |-> ChargeObj(a)]}
                ELSE charges
  /\ blocal' = [blocal EXCEPT ![a].chargeObj = IF captured THEN ChargeObj(a) ELSE ChargeError]
  /\ bside' = [bside EXCEPT ![a].findByIdAndUpdate = "pending"]
  /\ bcalls' = [bcalls EXCEPT ![a].findByIdAndUpdate = @ + 1,
                              ![a].getEmailTemplate = @ + 1]
  /\ bpc' = [bpc EXCEPT ![a] = "getEmailTemplate"]
  /\ UNCHANGED bout
  /\ UNCHANGED <<books, purchases, purchasedBookIds, logs, bargs, bhist>>
  /\ UNCHANGED syncVars

\* the charge settles: lines 175-184, up to the await of the template.
BuyStripeCharge(a, captured) ==
  /\ bpc[a] = "stripeCharge"
  /\ IF captured
     THEN /\ charges' = charges \cup {[attempt |-> a, userId |-> bargs[a].user,
                                      bookId |-> bargs[a].id, charge |-> ChargeObj(a)]}
          /\ blocal' = [blocal EXCEPT ![a].chargeObj = ChargeObj(a)]
          /\ bside' = [bside EXCEPT ![a].findByIdAndUpdate = "pending"]
          /\ bcalls' = [bcalls EXCEPT ![a].findByIdAndUpdate = @ + 1,
                                      ![a].getEmailTemplate = @ + 1]
          /\ bpc' = [bpc EXCEPT ![a] = "getEmailTemplate"]
          /\ UNCHANGED bout
     ELSE /\ Throw(a, "Payment failed")
          /\ blocal' = [blocal EXCEPT ![a].chargeObj = ChargeError]
          /\ UNCHANGED <<charges, bside, bcalls>>
  /\ UNCHANGED <<books, purchases, purchasedBookIds, logs, bargs, bhist>>
  /\ UNCHANGED syncVars

\* the template settles: lines 184-207, up to the ledger insert.
BuyGetEmailTemplate(a, rendered) ==
  /\ bpc[a] = "getEmailTemplate"
  /\ IF rendered
     THEN /\ bside' = [bside EXCEPT ![a].sendEmail = "pending", ![a].subscribe = "pending"]
          /\ bcalls' = [bcalls EXCEPT ![a].sendEmail = @ + 1,
                                      ![a].subscribe = @ + 1,
                                      ![a].create = @ + 1]
          /\ bpc' = [bpc EXCEPT ![a] = "create"]
          /\ UNCHANGED bout
     ELSE /\ Throw(a, "Template failed")
          /\ UNCHANGED <<bside, bcalls>>
  /\ UNCHANGED <<books, purchases, purchasedBookIds, charges, logs, bargs, blocal, bhist>>
  /\ UNCHANGED syncVars

\* BuyCreate reached only once the three promises buy started have settled.
BuyCreateAwaitsAll(a) ==
  /\ bpc[a] = "create"
  /\ \A what \in DOMAIN bside[a] : bside[a][what] = "settled"
  /\ purchases' = purchases \cup {PurchaseDoc(a)}
  /\ bpc' = [bpc EXCEPT ![a] = "done"]
  /\ bout' = [bout EXCEPT ![a] = [outcome |-> "Recorded", result |-> PurchaseDoc(a)]]
  /\ UNCHANGED <<books, purchasedBookIds, charges, logs, bargs, blocal, bcalls, bside, bhist>>
  /\ UNCHANGED syncVars

\* BuyCreate saving the book it loaded as well: the marker, which buy did not
\* load (line 158), is written back empty.
BuyCreateSavesBook(a) ==
  /\ bpc[a] = "create"
  /\ purchases' = purchases \cup {PurchaseDoc(a)}
  /\ bpc' = [bpc EXCEPT ![a] = "done"]
  /\ bout' = [bout EXCEPT ![a] = [outcome |-> "Recorded", result |-> PurchaseDoc(a)]]
  /\ githubLastCommitSha' = 0
  /\ UNCHANGED <<books, purchasedBookIds, charges, logs, bargs, blocal, bcalls, bside, bhist>>
  /\ UNCHANGED <<tree, head, chapters, spc, sargs, slocal, sfile, sout, scalls, hist>>

\* Purchase.create resolves: lines 207-215.
BuyCreate(a) ==
  /\ bpc[a] = "create"
  /\ purchases' = purchases \cup {PurchaseDoc(a)}
  /\ bpc' = [bpc EXCEPT ![a] = "done"]
  /\ bout' = [bout EXCEPT ![a] = [outcome |-> "Recorded", result |-> PurchaseDoc(a)]]
  /\ UNCHANGED <<books, purchasedBookIds, charges, logs, bargs, blocal, bcalls, bside, bhist>>
  /\ UNCHANGED syncVars

\* User.findByIdAndUpdate(...).exec() settles (line 182); nobody holds its
\* promise, and a rejection is neither caught nor logged.
FindByIdAndUpdateSettles(a, ok) ==
  /\ bside[a].findByIdAndUpdate = "pending"
  /\ bside' = [bside EXCEPT ![a].findByIdAndUpdate = "settled"]
  /\ purchasedBookIds' =
       IF ok
       THEN [purchasedBookIds EXCEPT ![bargs[a].user] = @ \cup {bargs[a].id}]
       ELSE purchasedBookIds
  /\ UNCHANGED <<books, purchases, charges, logs, bpc, bargs, blocal, bout, bcalls, bhist>>
  /\ UNCHANGED syncVars

\* SendEmailSettles with the rejection thrown into buy instead of logged.
SendEmailThrows(a, ok) ==
  /\ bside[a].sendEmail = "pending"
  /\ bside' = [bside EXCEPT ![a].sendEmail = "settled"]
  /\ IF ~ok /\ bpc[a] = "create"
     THEN Throw(a, "Email sending error:")
     ELSE UNCHANGED <<bpc, bout>>
  /\ UNCHANGED <<books, purchases, purchasedBookIds, charges, logs, bargs, blocal, bcalls, bhist>>
  /\ UNCHANGED syncVars

\* sendEmail(...) settles (lines 190-197); a rejection is logged by its catch.
SendEmailSettles(a, ok) ==
  /\ bside[a].sendEmail = "pending"
  /\ bside' = [bside EXCEPT ![a].sendEmail = "settled"]
  /\ logs' = IF ok THEN logs ELSE logs \cup {"Email sending error:"}
  /\ UNCHANGED <<books, purchases, purchasedBookIds, charges, bpc, bargs, blocal, bout, bcalls, bhist>>
  /\ UNCHANGED syncVars

\* subscribe(...) settles (lines 199-205); a rejection is logged by its catch.
SubscribeSettles(a, ok) ==
  /\ bside[a].subscribe = "pending"
  /\ bside' = [bside EXCEPT ![a].subscribe = "settled"]
  /\ logs' = IF ok THEN logs ELSE logs \cup {"Mailchimp subscribing error:"}
  /\ UNCHANGED <<books, purchases, purchasedBookIds, charges, bpc, bargs, blocal, bout, bcalls, bhist>>
  /\ UNCHANGED syncVars

\* Nobody has called buy yet.
BuyQuiet ==
  /\ purchasedBookIds = [u \in Users |-> {}]
  /\ charges = {}
  /\ logs = {}
  /\ bpc = [a \in Attempts |-> "idle"]
  /\ bargs = [a \in Attempts |-> [id |-> MissingId, user |-> NoUser]]
  /\ blocal = [a \in Attempts |-> [isPreorder |-> FALSE, price |-> 0, chargeObj |-> NoCharge]]
  /\ bout = [a \in Attempts |-> [outcome |-> "none", result |-> NoRecord]]
  /\ bcalls = [a \in Attempts |-> NoCalls]
  /\ bside = [a \in Attempts |-> NoSide]
  /\ bhist = [a \in Attempts |-> FALSE]

BuyIdle ==
  /\ books = [price |-> Num(20), isInPreorder |-> Undefined, preorderPrice |-> Undefined]
  /\ purchases = {}
  /\ BuyQuiet

BuyInit ==
  /\ books \in StoredBooks
  /\ purchases \in {{}, {OtherPurchase}}
  /\ BuyQuiet

BuyNext ==
  \E a \in Attempts :
    \/ \E id \in Ids, user \in Users \cup {NoUser} : BuyCall(a, id, user)
    \/ BuyFindById(a)
    \/ BuyCount(a)
    \/ \E captured \in BOOLEAN : BuyStripeCharge(a, captured)
    \/ \E rendered \in BOOLEAN : BuyGetEmailTemplate(a, rendered)
    \/ BuyCreate(a)
    \/ \E ok \in BOOLEAN : FindByIdAndUpdateSettles(a, ok)
    \/ \E ok \in BOOLEAN : SendEmailSettles(a, ok)
    \/ \E ok \in BOOLEAN : SubscribeSettles(a, ok)

\* ================================================================ buy: claims
Recorded(a) == bout[a].outcome = "Recorded"
Rejected(a, error) == bpc[a] = "done" /\ bout[a].outcome = error

\* What an attempt that stopped before the charge must not have done.
NothingAfterLedger(a) ==
  /\ bcalls[a].stripeCharge = 0
  /\ bcalls[a].findByIdAndUpdate = 0
  /\ bcalls[a].getEmailTemplate = 0
  /\ bcalls[a].sendEmail = 0
  /\ bcalls[a].subscribe = 0
  /\ bcalls[a].create = 0
  /\ bside[a] = NoSide
  /\ bout[a].result = NoRecord
  /\ \A c \in charges : c.attempt # a

\* C1: for a fixed (user, product) the ledger never holds two records, and two
\* attempts of the pair that both end recorded or with 'Already bought this
\* book' end one each way.
C1_PurchaseUniqueness ==
  /\ \A u \in Users : CountPurchases(u, BookId) <= 1
  /\ \A a, b \in Attempts :
       (/\ a # b
        /\ bargs[a] = bargs[b]
        /\ bargs[a].id = BookId /\ bargs[a].user \in Users
        /\ bpc[a] = "done" /\ bpc[b] = "done"
        /\ {bout[a].outcome, bout[b].outcome} \subseteq {"Recorded", "Already bought this book"})
       => bout[a].outcome # bout[b].outcome

\* C2: an attempt that ends with 'Already bought this book' never called the
\* payment gateway, started no owned-products update and no notification, and
\* created no record.
C2_NoChargeOnDuplicate ==
  \A a \in Attempts :
    bout[a].outcome = "Already bought this book" => NothingAfterLedger(a)

C2_Witness ==
  \E a \in Attempts : Rejected(a, "Already bought this book")

\* C3: when the gateway rejects the charge, the attempt ends with that failure,
\* never calls Purchase.create, sends no email, makes no mailing-list update and
\* no owned-products update.
C3_PaymentFailure ==
  \A a \in Attempts :
    blocal[a].chargeObj = ChargeError =>
      /\ Rejected(a, "Payment failed")
      /\ bout[a].result = NoRecord
      /\ bcalls[a].create = 0
      /\ bcalls[a].sendEmail = 0
      /\ bcalls[a].subscribe = 0
      /\ bcalls[a].findByIdAndUpdate = 0
      /\ bside[a] = NoSide
      /\ \A p \in purchases : p.stripeCharge # ChargeError

C3_Witness ==
  \E a \in Attempts : blocal[a].chargeObj = ChargeError /\ bpc[a] = "done"

\* C4: once the two notifications are started, whatever becomes of them the
\* attempt goes on to create its record and returns it: the record made of the
\* attempt's user, book, amount, receipt and preorder flag.
C4_NotificationIndependence ==
  \A a \in Attempts :
    bcalls[a].sendEmail > 0 =>
      /\ bpc[a] \in {"create", "done"}
      /\ bpc[a] = "done" =>
           /\ Recorded(a)
           /\ bout[a].result = PurchaseDoc(a)
           /\ bout[a].result.stripeCharge = ChargeObj(a)
           /\ bout[a].result \in purchases

\* One attempt was made; both its notifications failed and it returned its record.
C4_Witness ==
  \E a \in Attempts :
    /\ \A b \in Attempts : b # a => bpc[b] = "idle"
    /\ bpc[a] = "done" /\ Recorded(a)
    /\ bside[a].sendEmail = "settled"
    /\ bside[a].subscribe = "settled"
    /\ logs = {"Email sending error:", "Mailchimp subscribing error:"}

\* C5: the attempt's price is the preorder price exactly when the stored product
\* is flagged as in preorder and has a preorder price; the amount is 100 times
\* that price and the record's isPreorder flag tells the preorder case.
C5_StoredPreorder == books.isInPreorder = Bool(TRUE) /\ books.preorderPrice.t = "number"

C5_PreorderPricing ==
  \A a \in Attempts :
    bcalls[a].stripeCharge > 0 =>
      /\ blocal[a].isPreorder = C5_StoredPreorder
      /\ Amount(blocal[a].price) =
           100 * (IF C5_StoredPreorder THEN books.preorderPrice.v ELSE books.price.v)
      /\ Recorded(a) => bout[a].result.isPreorder = C5_StoredPreorder

\* C10: buy of an absent product ends with 'Book not found' (with or without a
\* user), buy of an existing product without a user ends with 'User required',
\* and in both cases nothing after the two checks was called.
C10_NotFoundUnauthenticated ==
  \A a \in Attempts :
    /\ (bpc[a] = "done" /\ bargs[a].id = MissingId) => bout[a].outcome = "Book not found"
    /\ (bpc[a] = "done" /\ bargs[a].id = BookId /\ bargs[a].user = NoUser)
         => bout[a].outcome = "User required"
    /\ bout[a].outcome \in {"Book not found", "User required"} =>
         bcalls[a].count = 0 /\ NothingAfterLedger(a)

C10_Witness ==
  /\ \E a \in Attempts :
       Rejected(a, "Book not found") /\ bargs[a].user = NoUser
  /\ \E a \in Attempts : Rejected(a, "User required")

\* The gateway captured the charge of the attempt.
Captured(a) == \E c \in charges : c.attempt = a

\* C13: an attempt whose charge was captured ends recorded, with its record
\* created and returned: past the ledger check, the only error an attempt can
\* end with is the failure of the payment.
C13_ChargedEndsRecorded ==
  \A a \in Attempts :
    bpc[a] = "done" =>
      /\ bout[a].outcome \in {"Book not found", "User required", "Already bought this book",
                              "Payment failed", "Recorded"}
      /\ Captured(a) => (Recorded(a) /\ bout[a].result \in purchases)

\* C14: every record an attempt created carries the amount that was passed to
\* the gateway in that attempt (100 times the price computed at line 164) and
\* the receipt the gateway returned for that charge.
C14_PriceReused ==
  /\ \A a \in Attempts :
       Recorded(a) =>
         /\ bout[a].result \in purchases
         /\ bout[a].result.amount = Amount(blocal[a].price)
         /\ \E c \in charges :
              /\ c.attempt = a
              /\ bout[a].result.stripeCharge = c.charge
              /\ bout[a].result.amount = c.charge.amount
  /\ \A p \in purchases :
       p.userId \in Users =>
         \E c \in charges :
           /\ c.userId = p.userId /\ c.bookId = p.bookId
           /\ p.stripeCharge = c.charge
           /\ p.amount = c.charge.amount

\* An attempt was recorded beside the record of another user.
C14_Witness ==
  \E a \in Attempts :
    /\ Recorded(a)
    /\ Captured(a)
    /\ bout[a].result.amount = Amount(20)
    /\ OtherPurchase \in purchases

\* C15: the ledger only grows (no step removes or changes a record), and an
\* attempt called when its (user, product) already had a record ends with
\* 'Already bought this book', having charged and created nothing.
C15_RecordedTerminal ==
  /\ [](\A a \in Attempts :
         (bhist[a] /\ bpc[a] = "done") =>
           (bout[a].outcome = "Already bought this book" /\ NothingAfterLedger(a)))
  /\ [][purchases \subseteq purchases']_vars

\* An attempt was recorded, a later one of the same pair was then turned down.
C15_Witness ==
  \E a, b \in Attempts :
    /\ Recorded(a)
    /\ bhist[b]
    /\ bargs[b] = bargs[a]
    /\ Rejected(b, "Already bought this book")
    /\ bout[a].result \in purchases

\* C16: an attempt that has started its notifications returns its record
\* whether or not the owned-products update, the email and the mailing-list
\* update ever settle: nothing but the ledger's answer is waited for.
C16_ReturnsWithoutWaiting ==
  \A a \in Attempts :
    (bpc[a] = "create") ~> (Recorded(a) /\ bout[a].result \in purchases)

\* The call has returned its record while all three are still in flight.
C16_Witness ==
  \E a \in Attempts :
    /\ bpc[a] = "done"
    /\ Recorded(a)
    /\ bside[a] = [findByIdAndUpdate |-> "pending", sendEmail |-> "pending",
                   subscribe |-> "pending"]
    /\ bargs[a].id \notin purchasedBookIds[bargs[a].user]

\* The charges captured and the records held for a (user, product).
ChargesOf(userId, bookId) == {c \in charges : c.userId = userId /\ c.bookId = bookId}

\* C19: for a (user, product), however the attempts interleave, the gateway
\* captures at most one charge, and once the attempts of the pair are over there
\* are no more charges than records.
C19_ChargeUniqueness ==
  \A u \in Users :
    /\ Cardinality(ChargesOf(u, BookId)) <= 1
    /\ (\A a \in Attempts : bpc[a] \in {"idle", "done"}) =>
         Cardinality(ChargesOf(u, BookId)) <= CountPurchases(u, BookId)

\* ====================================================== syncContent
\* A path is the sequence of its characters.
Introduction == <<"i","n","t","r","o","d","u","c","t","i","o","n",".","m","d">>
Chapter12 == <<"c","h","a","p","t","e","r","-","1","2",".","m","d">>
Chapter0 == <<"c","h","a","p","t","e","r","-","0",".","m","d">>
Chapter1Bak == <<"c","h","a","p","t","e","r","-","1",".","m","d",".","b","a","k">>
NotesTxt == <<"n","o","t","e","s",".","t","x","t">>
Img == <<"i","m","g">>

\* What the top level of the repository may hold, {type, path} as github lists
\* it: a book with its notes and pictures, and two repositories of oddly named
\* files.
Trees ==
  {{[type |-> "file", path |-> Introduction],
    [type |-> "file", path |-> Chapter12],
    [type |-> "file", path |-> NotesTxt],
    [type |-> "dir", path |-> Img]},
   {[type |-> "file", path |-> Chapter0]},
   {[type |-> "file", path |-> Chapter1Bak],
    [type |-> "file", path |-> NotesTxt]}}

\* githubLastCommitSha of a book that was never synced (the schema sets no default).
NoSha == 0

Digits == {"0", "1", "2", "3", "4", "5", "6", "7", "8", "9"}
ChapterDash == <<"c","h","a","p","t","e","r","-">>
DotMd == <<".","m","d">>

\* /chapter-([0-9]+)\.md/.test(path): the pattern is searched for anywhere in path.
ChapterRegexTest(path) ==
  \E i \in 1 .. Len(path) : \E n \in 1 .. Len(path) :
    /\ i + 7 + n + 3 <= Len(path)
    /\ SubSeq(path, i, i + 7) = ChapterDash
    /\ \A k \in (i + 8) .. (i + 7 + n) : path[k] \in Digits
    /\ SubSeq(path, i + 8 + n, i + 10 + n) = DotMd

\* lines 128-134: the entries the callback does not return early on.
Selected(f) ==
  /\ ~(f.type # "file")
  /\ ~(f.path # Introduction /\ ~ChapterRegexTest(f.path))

NoSyncCalls == [findById |-> 0, getCommits |-> 0, list |-> 0, getContent |-> 0,
                syncContent |-> 0, writes |-> 0, update |-> 0]

NoLocal == [book |-> NoSha, lastCommit |-> <<>>, lastCommitSha |-> NoSha]
NoOutcome == [outcome |-> "none", wrote |-> NoSha]

Running(r) == spc[r] \notin {"idle", "done"}

\* A callback of the run's map is suspended at one of its awaits.
InFlight(r) == \E f \in tree : sfile[r][f] \in {"getContent", "syncContent"}

\* Nothing of an earlier call is left in r: a new call may take its place.
Free(r) == ~Running(r) /\ ~InFlight(r)

\* getCommits({ limit: 1 }): the data of the response.
GetCommits == IF head = 0 THEN <<>> ELSE <<[sha |-> head]>>

SyncThrow(r, error) ==
  /\ spc' = [spc EXCEPT ![r] = "done"]
  /\ sout' = [sout EXCEPT ![r].outcome = error]
  /\ hist' = IF sargs[r] = BookId
             THEN [hist EXCEPT !.quiet = hist.clean[r] /\ error = "No change in content!"]
             ELSE hist

SyncCalled(r, what) == scalls' = [scalls EXCEPT ![r][what] = @ + 1]

\* The call itself: the code up to the first await (line 100).
SyncCall(r, id) ==
  /\ Free(r)
  /\ \A q \in Runs : q < r => ~Free(q)
  /\ spc' = [spc EXCEPT ![r] = "findById"]
  /\ sargs' = [sargs EXCEPT ![r] = id]
  /\ slocal' = [slocal EXCEPT ![r] = NoLocal]
  /\ sfile' = [sfile EXCEPT ![r] = [f \in tree |-> "none"]]
  /\ sout' = [sout EXCEPT ![r] = NoOutcome]
  /\ scalls' = [scalls EXCEPT ![r] = [NoSyncCalls EXCEPT !.findById = 1]]
  /\ hist' = [hist EXCEPT
                !.second = [q \in Runs |->
                              IF q = r THEN id = BookId /\ hist.quiet /\ \A p \in Runs : ~Running(p)
                              ELSE hist.second[q] /\ ~Running(q)],
                !.clean = [q \in Runs |->
                             IF q = r THEN \A p \in Runs : ~Running(p)
                             ELSE hist.clean[q] /\ ~Running(q)]]
  /\ UNCHANGED <<tree, head, githubLastCommitSha, chapters>>
  /\ UNCHANGED buyVars

\* findById resolves: lines 100-106, up to the await of getCommits.
SyncFindById(r) ==
  /\ spc[r] = "findById"
  /\ IF FindById(sargs[r]) = <<>>
     THEN /\ SyncThrow(r, "Book not found")
          /\ UNCHANGED <<slocal, scalls>>
     ELSE /\ slocal' = [slocal EXCEPT ![r].book = githubLastCommitSha]
          /\ spc' = [spc EXCEPT ![r] = "getCommits"]
          /\ SyncCalled(r, "getCommits")
          /\ UNCHANGED <<sout, hist>>
  /\ UNCHANGED <<tree, head, githubLastCommitSha, chapters, sargs, sfile>>
  /\ UNCHANGED buyVars

\* SyncGetCommits without the comparison of line 117.
SyncGetCommitsNoCompare(r) ==
  /\ spc[r] = "getCommits"
  /\ LET data == GetCommits IN
     IF data = <<>>
     THEN /\ SyncThrow(r, "No change in content!")
          /\ UNCHANGED <<slocal, scalls>>
     ELSE /\ slocal' = [slocal EXCEPT ![r].lastCommit = data,
                                      ![r].lastCommitSha = data[1].sha]
          /\ spc' = [spc EXCEPT ![r] = "getContent"]
          /\ SyncCalled(r, "list")
          /\ UNCHANGED <<sout, hist>>
  /\ UNCHANGED <<tree, head, githubLastCommitSha, chapters, sargs, sfile>>
  /\ UNCHANGED buyVars

\* getCommits resolves: lines 106-121, up to the await of the listing.
SyncGetCommits(r) ==
  /\ spc[r] = "getCommits"
  /\ LET data == GetCommits IN
     IF data = <<>>
     THEN /\ SyncThrow(r, "No change in content!")
          /\ UNCHANGED <<slocal, scalls>>
     ELSE LET lastCommitSha == data[1].sha IN
          /\ slocal' = [slocal EXCEPT ![r].lastCommit = data,
                                      ![r].lastCommitSha = lastCommitSha]
          /\ IF lastCommitSha = slocal[r].book
             THEN /\ SyncThrow(r, "No change in content!")
                  /\ UNCHANGED scalls
             ELSE /\ spc' = [spc EXCEPT ![r] = "getContent"]
                  /\ SyncCalled(r, "list")
                  /\ UNCHANGED <<sout, hist>>
  /\ UNCHANGED <<tree, head, githubLastCommitSha, chapters, sargs, sfile>>
  /\ UNCHANGED buyVars

\* the listing resolves: lines 121-140, every callback of the map run up to its
\* first await (or to its early return).
SyncGetContent(r) ==
  /\ spc[r] = "getContent"
  /\ sfile' = [sfile EXCEPT ![r] =
                 [f \in tree |-> IF Selected(f) THEN "getContent" ELSE "returned"]]
  /\ scalls' = [scalls EXCEPT ![r].getContent = Cardinality({f \in tree : Selected(f)})]
  /\ spc' = [spc EXCEPT ![r] = "all"]
  /\ UNCHANGED <<tree, head, githubLastCommitSha, chapters, sargs, slocal, sout, hist>>
  /\ UNCHANGED buyVars

\* getContent of one file settles: lines 136-147, up to the await of Chapter.syncContent.
\* res is "rejected", "noContent" (a response without data.content: Buffer.from throws)
\* or "ok".
FileGetContent(r, f, res) ==
  /\ sfile[r][f] = "getContent"
  /\ IF res = "ok"
     THEN /\ sfile' = [sfile EXCEPT ![r][f] = "syncContent"]
          /\ SyncCalled(r, "syncContent")
     ELSE /\ sfile' = [sfile EXCEPT ![r][f] = "rejected"]
          /\ UNCHANGED scalls
  /\ UNCHANGED <<tree, head, githubLastCommitSha, chapters, spc, sargs, slocal, sout, hist>>
  /\ UNCHANGED buyVars

\* FileSyncContent without the try/catch of lines 146-151.
FileSyncContentUncaught(r, f, ok) ==
  /\ sfile[r][f] = "syncContent"
  /\ IF ok
     THEN /\ chapters' = chapters \cup {f.path}
          /\ sfile' = [sfile EXCEPT ![r][f] = "synced"]
          /\ SyncCalled(r, "writes")
     ELSE /\ sfile' = [sfile EXCEPT ![r][f] = "rejected"]
          /\ UNCHANGED <<chapters, scalls>>
  /\ UNCHANGED <<tree, head, githubLastCommitSha, spc, sargs, slocal, sout, hist>>
  /\ UNCHANGED buyVars

\* FileSyncContent calling Chapter.syncContent again when it has failed.
FileSyncContentRetries(r, f, ok) ==
  /\ sfile[r][f] = "syncContent"
  /\ IF ok
     THEN /\ chapters' = chapters \cup {f.path}
          /\ sfile' = [sfile EXCEPT ![r][f] = "synced"]
          /\ SyncCalled(r, "writes")
     ELSE /\ scalls[r].syncContent < 3
          /\ SyncCalled(r, "syncContent")
          /\ UNCHANGED <<chapters, sfile>>
  /\ UNCHANGED <<tree, head, githubLastCommitSha, spc, sargs, slocal, sout, hist>>
  /\ UNCHANGED buyVars

\* Chapter.syncContent of one file settles: lines 146-151.
FileSyncContent(r, f, ok) ==
  /\ sfile[r][f] = "syncContent"
  /\ IF ok
     THEN /\ chapters' = chapters \cup {f.path}
          /\ sfile' = [sfile EXCEPT ![r][f] = "synced"]
          /\ SyncCalled(r, "writes")
     ELSE /\ sfile' = [sfile EXCEPT ![r][f] = "logged"]
          /\ UNCHANGED <<chapters, scalls>>
  /\ UNCHANGED <<tree, head, githubLastCommitSha, spc, sargs, slocal, sout, hist>>
  /\ UNCHANGED buyVars

\* Promise.all rejects with the first rejection (line 127); the other callbacks go on.
SyncAllRejects(r) ==
  /\ spc[r] = "all"
  /\ \E f \in tree : sfile[r][f] = "rejected"
  /\ SyncThrow(r, "File rejected")
  /\ UNCHANGED <<tree, head, githubLastCommitSha, chapters, sargs, slocal, sfile, scalls>>
  /\ UNCHANGED buyVars

\* SyncUpdate writing back the marker it loaded instead of the new commit.
SyncUpdateStale(r) ==
  /\ spc[r] = "all"
  /\ \A f \in tree : sfile[r][f] \in {"returned", "synced", "logged"}
  /\ githubLastCommitSha' = slocal[r].book
  /\ spc' = [spc EXCEPT ![r] = "done"]
  /\ sout' = [sout EXCEPT ![r] = [outcome |-> "updated", wrote |-> slocal[r].lastCommitSha]]
  /\ SyncCalled(r, "update")
  /\ hist' = [hist EXCEPT !.quiet = hist.clean[r]]
  /\ UNCHANGED <<tree, head, chapters, sargs, slocal, sfile>>
  /\ UNCHANGED buyVars

\* SyncUpdate without the wait for the callbacks that are still suspended.
SyncUpdateEarly(r) ==
  /\ spc[r] = "all"
  /\ \A f \in tree : sfile[r][f] # "rejected"
  /\ githubLastCommitSha' = slocal[r].lastCommitSha
  /\ spc' = [spc EXCEPT ![r] = "done"]
  /\ sout' = [sout EXCEPT ![r] = [outcome |-> "updated", wrote |-> slocal[r].lastCommitSha]]
  /\ SyncCalled(r, "update")
  /\ hist' = [hist EXCEPT !.quiet = hist.clean[r]]
  /\ UNCHANGED <<tree, head, chapters, sargs, slocal, sfile>>
  /\ UNCHANGED buyVars

\* Promise.all resolves and book.update runs: lines 127 and 154.
SyncUpdate(r) ==
  /\ spc[r] = "all"
  /\ \A f \in tree : sfile[r][f] \in {"returned", "synced", "logged"}
  /\ githubLastCommitSha' = slocal[r].lastCommitSha
  /\ spc' = [spc EXCEPT ![r] = "done"]
  /\ sout' = [sout EXCEPT ![r] = [outcome |-> "updated", wrote |-> slocal[r].lastCommitSha]]
  /\ SyncCalled(r, "update")
  /\ hist' = [hist EXCEPT !.quiet = hist.clean[r]]
  /\ UNCHANGED <<tree, head, chapters, sargs, slocal, sfile>>
  /\ UNCHANGED buyVars

\* Somebody pushes a commit to the repository.
Push ==
  /\ head < MaxCommits
  /\ head' = head + 1
  /\ hist' = [hist EXCEPT !.quiet = FALSE,
                          !.second = [q \in Runs |-> hist.second[q] /\ ~Running(q)],
                          !.clean = [q \in Runs |-> hist.clean[q] /\ ~Running(q)]]
  /\ UNCHANGED <<tree, githubLastCommitSha, chapters, spc, sargs, slocal, sfile, sout, scalls>>
  /\ UNCHANGED buyVars

SyncIdle ==
  /\ githubLastCommitSha = NoSha
  /\ chapters = {}
  /\ spc = [r \in Runs |-> "idle"]
  /\ sargs = [r \in Runs |-> MissingId]
  /\ slocal = [r \in Runs |-> NoLocal]
  /\ sfile = [r \in Runs |-> [f \in tree |-> "none"]]
  /\ sout = [r \in Runs |-> NoOutcome]
  /\ scalls = [r \in Runs |-> NoSyncCalls]
  /\ hist = [quiet |-> FALSE,
             second |-> [r \in Runs |-> FALSE],
             clean |-> [r \in Runs |-> FALSE]]

SyncInit ==
  /\ tree \in Trees
  /\ head = 0
  /\ SyncIdle

SyncNext ==
  \/ \E r \in Runs, id \in Ids : SyncCall(r, id)
  \/ \E r \in Runs : SyncFindById(r)
  \/ \E r \in Runs : SyncGetCommits(r)
  \/ \E r \in Runs : SyncGetContent(r)
  \/ \E r \in Runs, f \in tree, res \in {"rejected", "noContent", "ok"} : FileGetContent(r, f, res)
  \/ \E r \in Runs, f \in tree, ok \in BOOLEAN : FileSyncContent(r, f, ok)
  \/ \E r \in Runs : SyncAllRejects(r)
  \/ \E r \in Runs : SyncUpdate(r)
  \/ Push

\* ========================================================= syncContent: claims
Listed(r) == scalls[r].list > 0 /\ spc[r] \in {"all", "done"}

\* The run has stopped before the listing and left the stores alone.
NothingAfterCommits(r) ==
  /\ scalls[r].list = 0
  /\ scalls[r].getContent = 0
  /\ scalls[r].syncContent = 0
  /\ scalls[r].writes = 0
  /\ scalls[r].update = 0
  /\ sout[r].wrote = NoSha
  /\ \A f \in tree : sfile[r][f] = "none"

\* The call was made right after a call on the same product that returned (with
\* the marker updated or with 'No change in content!'), no commit was pushed
\* since that call began and no other call ran beside either of them.
SecondCall(r) ==
  /\ spc[r] # "idle"
  /\ sargs[r] = BookId
  /\ hist.second[r]

\* C6: the second of two calls with no new commit between them calls
\* Chapter.syncContent for no file, writes no chapter and ends with
\* 'No change in content!'.
C6_Idempotence ==
  \A r \in Runs :
    SecondCall(r) =>
      /\ scalls[r].syncContent = 0
      /\ scalls[r].writes = 0
      /\ spc[r] \in {"findById", "getCommits", "done"}
      /\ spc[r] = "done" => sout[r].outcome = "No change in content!"

C6_Witness ==
  \E r \in Runs :
    /\ SecondCall(r)
    /\ spc[r] = "done"
    /\ chapters # {}
    /\ githubLastCommitSha = head

\* 'chapter-<positive integer>.md' and nothing else.
C7_ChapterName(path) ==
  /\ Len(path) > Len(ChapterDash) + Len(DotMd)
  /\ SubSeq(path, 1, Len(ChapterDash)) = ChapterDash
  /\ SubSeq(path, Len(path) - Len(DotMd) + 1, Len(path)) = DotMd
  /\ \A k \in (Len(ChapterDash) + 1) .. (Len(path) - Len(DotMd)) : path[k] \in Digits
  /\ \E k \in (Len(ChapterDash) + 1) .. (Len(path) - Len(DotMd)) : path[k] # "0"

\* C7: the entries a run goes on with (fetches, to pass them to
\* Chapter.syncContent) are exactly the regular files named 'introduction.md' or
\* 'chapter-<positive integer>.md'; every other entry is returned on at once.
C7_AllowList ==
  \A r \in Runs :
    Listed(r) =>
      \A f \in tree :
        sfile[r][f] # "returned" <=>
          (f.type = "file" /\ (f.path = Introduction \/ C7_ChapterName(f.path)))

\* C8: in a run where every selected file was fetched and decoded, whatever
\* Chapter.syncContent answers for each of them, every selected file is passed to
\* it, the call does not fail and the marker is written with the new commit.
C8_PartialFailureIsolation ==
  \A r \in Runs :
    (/\ spc[r] = "done"
     /\ Listed(r)
     /\ scalls[r].syncContent = scalls[r].getContent)
    => /\ sout[r].outcome = "updated"
       /\ sout[r].wrote = slocal[r].lastCommitSha
       /\ sout[r].wrote # slocal[r].book
       /\ \A f \in tree : Selected(f) => sfile[r][f] \in {"synced", "logged"}

C8_Witness ==
  \E r \in Runs :
    /\ spc[r] = "done"
    /\ sout[r].outcome = "updated"
    /\ \E f, g \in tree :
         /\ sfile[r][f] = "logged"
         /\ sfile[r][g] = "synced"
         /\ g.path \in chapters
         /\ f.path \notin chapters
    /\ githubLastCommitSha = slocal[r].lastCommitSha

\* C9: a run on an absent product ends with 'Book not found'; a run on an
\* existing product ends with 'No change in content!' exactly when getCommits
\* answered no commit or the sha of the loaded marker; and a run that ended either
\* way listed nothing, fetched nothing, wrote no chapter and no marker.
C9_SyncFailures ==
  \A r \in Runs :
    /\ spc[r] = "done" =>
         /\ sargs[r] = MissingId <=> sout[r].outcome = "Book not found"
         /\ sargs[r] = BookId =>
              (sout[r].outcome = "No change in content!" <=>
                 (\/ slocal[r].lastCommit = <<>>
                  \/ slocal[r].lastCommit[1].sha = slocal[r].book))
    /\ sout[r].outcome \in {"Book not found", "No change in content!"} =>
         NothingAfterCommits(r)

C9_Witness ==
  \E r \in Runs :
    /\ spc[r] = "done"
    /\ sout[r].outcome = "No change in content!"
    /\ slocal[r].lastCommit # <<>>
    /\ githubLastCommitSha = slocal[r].book

\* C11: a run writes the marker only once every callback of its map has settled:
\* a run that called book.update has no file still being fetched or synced, and
\* each of its selected files ended synced or logged.
C11_UpdateAfterSettled ==
  \A r \in Runs :
    (scalls[r].update > 0 \/ sout[r].wrote # NoSha) =>
      /\ ~InFlight(r)
      /\ \A f \in tree : sfile[r][f] \in {"returned", "synced", "logged"}
      /\ scalls[r].syncContent = scalls[r].getContent

\* A run updated the marker after its two files had settled, one of them failing.
C11_Witness ==
  \E r \in Runs :
    /\ scalls[r].update = 1
    /\ scalls[r].getContent = 2
    /\ scalls[r].writes = 1
    /\ githubLastCommitSha = sout[r].wrote
    /\ sout[r].wrote # NoSha

\* C12: whatever fails for a selected file (its fetch, its decoding or
\* Chapter.syncContent), the call does not fail: a run that listed the
\* repository and is over has written the marker with the new commit, and no
\* callback of its map is left unfinished.
C12_FileFailureIsolation ==
  \A r \in Runs :
    (spc[r] = "done" /\ Listed(r)) =>
      /\ sout[r].outcome = "updated"
      /\ sout[r].wrote = slocal[r].lastCommitSha
      /\ ~InFlight(r)

\* Only purchases are made: the repository is empty and nobody syncs.
InitBuy ==
  /\ BuyInit
  /\ tree = {}
  /\ head = 0
  /\ SyncIdle

SpecBuy == InitBuy /\ [][BuyNext]_vars

\* Every promise buy awaits settles and its continuation is run; nothing is
\* assumed of the promises it does not await.
BuyFair ==
  \A a \in Attempts :
    /\ WF_vars(BuyFindById(a))
    /\ WF_vars(BuyCount(a))
    /\ WF_vars(\E captured \in BOOLEAN : BuyStripeCharge(a, captured))
    /\ WF_vars(\E rendered \in BOOLEAN : BuyGetEmailTemplate(a, rendered))
    /\ WF_vars(BuyCreate(a))

\* Purchases of a plain book nobody has bought yet.
InitBuyLive ==
  /\ BuyIdle
  /\ tree = {}
  /\ head = 0
  /\ SyncIdle

SpecBuyLive == InitBuyLive /\ [][BuyNext]_vars /\ BuyFair

\* C20: the stored marker never moves back to an earlier commit, and when no
\* run is in progress it is the newest commit a run that wrote it had observed.
C20_MarkerMonotonic ==
  /\ [][githubLastCommitSha' >= githubLastCommitSha]_vars
  /\ [](\A r \in Runs :
         ((\A q \in Runs : ~Running(q)) /\ sout[r].outcome = "updated") =>
           githubLastCommitSha >= sout[r].wrote)

\* C17: no call is made twice.  An attempt calls the gateway, the template, each
\* notification, the owned-products update and the ledger insert at most once; a
\* run asks for the commits and the listing at most once, fetches each selected
\* file once and has called Chapter.syncContent exactly once for each file that
\* was fetched, however these calls ended.
C17_NoRetry ==
  /\ \A a \in Attempts :
       \A what \in DOMAIN bcalls[a] : bcalls[a][what] <= 1
  /\ \A r \in Runs :
       /\ scalls[r].findById <= 1
       /\ scalls[r].getCommits <= 1
       /\ scalls[r].list <= 1
       /\ scalls[r].update <= 1
       /\ scalls[r].getContent \in {0, Cardinality({f \in tree : Selected(f)})}
       /\ scalls[r].syncContent =
            Cardinality({f \in tree : sfile[r][f] \in {"syncContent", "synced", "logged"}})
       /\ scalls[r].writes = Cardinality({f \in tree : sfile[r][f] = "synced"})

\* A purchase whose two notifications failed, and a run in which one file could
\* not be fetched and the other could not be synced.
C17_Witness ==
  /\ \E a \in Attempts :
       /\ bcalls[a].stripeCharge = 1
       /\ bcalls[a].sendEmail = 1
       /\ bcalls[a].subscribe = 1
       /\ logs = {"Email sending error:", "Mailchimp subscribing error:"}
  /\ \E r \in Runs :
       /\ scalls[r].getContent = 2
       /\ scalls[r].syncContent = 1
       /\ \E f, g \in tree : sfile[r][f] = "rejected" /\ sfile[r][g] = "logged"

\* C18: a step of buy leaves the chapters and the marker as they are, a step of
\* syncContent leaves the ledger and the gateway's charges as they are, and a
\* chapter is written only by a run whose Chapter.syncContent resolved.
C18_Frame ==
  [][/\ (bpc' # bpc \/ bside' # bside) =>
          (chapters' = chapters /\ githubLastCommitSha' = githubLastCommitSha)
     /\ (spc' # spc \/ sfile' # sfile) =>
          (purchases' = purchases /\ charges' = charges /\ bcalls' = bcalls)
     /\ chapters' # chapters =>
          \E r \in Runs : \E f \in tree :
            sfile[r][f] = "syncContent" /\ sfile'[r][f] = "synced"
     /\ githubLastCommitSha' # githubLastCommitSha =>
          \E r \in Runs : scalls'[r].update = scalls[r].update + 1]_vars

\* A purchase was recorded after a run had written a chapter and the marker.
C18_Witness ==
  /\ \E a \in Attempts : Recorded(a) /\ Captured(a)
  /\ \E r \in Runs : sout[r].outcome = "updated"
  /\ chapters # {}
  /\ githubLastCommitSha = head
  /\ head > 0

\* One purchase beside one sync at a time: the first attempt and the calls made
\* one after the other as the first run, interleaved in every way.
FirstAttempt == CHOOSE a \in Attempts : \A b \in Attempts : a <= b
FirstRun == CHOOSE r \in Runs : \A q \in Runs : r <= q

Init ==
  /\ BuyIdle
  /\ SyncInit

Next ==
  \/ \E id \in Ids, user \in Users \cup {NoUser} : BuyCall(FirstAttempt, id, user)
  \/ BuyFindById(FirstAttempt)
  \/ BuyCount(FirstAttempt)
  \/ \E captured \in BOOLEAN : BuyStripeCharge(FirstAttempt, captured)
  \/ \E rendered \in BOOLEAN : BuyGetEmailTemplate(FirstAttempt, rendered)
  \/ BuyCreate(FirstAttempt)
  \/ \E ok \in BOOLEAN : FindByIdAndUpdateSettles(FirstAttempt, ok)
  \/ \E ok \in BOOLEAN : SendEmailSettles(FirstAttempt, ok)
  \/ \E ok \in BOOLEAN : SubscribeSettles(FirstAttempt, ok)
  \/ \E id \in Ids : SyncCall(FirstRun, id)
  \/ SyncFindById(FirstRun)
  \/ SyncGetCommits(FirstRun)
  \/ SyncGetContent(FirstRun)
  \/ \E f \in tree, res \in {"rejected", "noContent", "ok"} : FileGetContent(FirstRun, f, res)
  \/ \E f \in tree, ok \in BOOLEAN : FileSyncContent(FirstRun, f, ok)
  \/ SyncAllRejects(FirstRun)
  \/ SyncUpdate(FirstRun)
  \/ Push

Spec == Init /\ [][Next]_vars

\* Only syncs are made: nobody buys.
InitSync ==
  /\ SyncInit
  /\ BuyIdle

SpecSync == InitSync /\ [][SyncNext]_vars
====
